---- MODULE Spec2Model ----
(***************************************************************************)
(* A model of HttpBase (src/src/HttpBase.ts): one HttpBase object built    *)
(* from a global configuration, and one get/post call made on it, followed *)
(* through its asynchronous steps: the synchronous part of httpBase (the   *)
(* request options and the start of every header resolution), the          *)
(* settlement of each pending header promise, the dispatch of the request  *)
(* and the transport's answer.                                             *)
(*                                                                         *)
(* Strings are sequences of tokens: a URL is the sequence of its separator *)
(* tokens ("/", ":") and its other parts, so that concatenation is \o.     *)
(* The user-facing messages are named by ASCII identifiers:                *)
(*   MSG_UNKNOWN  '未知错误'        MSG_SERVER   '服务器内部错误'              *)
(*   MSG_NOTFOUND 'URL找不到'      MSG_TIMEOUT  '网络超时'                    *)
(*   MSG_NONET    '无网络, 请检查您的网络连接'                                 *)
(* The callbacks of the host (showError, loading.show/hide,                *)
(* handleServerError) are taken to return normally.                        *)
(***************************************************************************)
EXTENDS Integers, Sequences, FiniteSets, TLC

VARIABLES
  config,          \* this.config, the global configuration
  serverFullPath,  \* this.serverFullPath
  args,            \* the arguments of the call: method, url, data, options
  pc,              \* position of httpBase: idle, headers, request, done
  httpOptions,     \* the AxiosRequestConfig under construction
  tokens,          \* per header provider: skipped, resolved, pending, failed
  sent,            \* the requests handed to Axios.request
  response,        \* what Axios.request settled with
  result,          \* settlement of the promise returned by get/post
  shown,           \* invocations of the error-display callbacks
  handled,         \* invocations of config.handleServerError
  loadingLog       \* invocations of loading show/hide

vars == <<config, serverFullPath, args, pc, httpOptions, tokens, sent,
          response, result, shown, handled, loadingLog>>

\* Largest number of header providers in the configuration.
MaxHeaders == 2

\* The fallback timeout of httpBase.
DefaultTimeout == 5000

-----------------------------------------------------------------------------
(* Values *)

HeaderKeys == <<"Authorization", "X-Token", "X-Trace", "X-Device">>
StaticValues == <<"s1", "s2", "s3", "s4">>
TokenValues == <<"t1", "t2", "t3", "t4">>

\* An ILoading argument: not supplied, null, or an object with optional
\* show and hide.
NoLoading == [kind |-> "undefined", show |-> FALSE, hide |-> FALSE]
NullLoading == [kind |-> "null", show |-> FALSE, hide |-> FALSE]
LoadingObjects == [kind : {"object"}, show : BOOLEAN, hide : BOOLEAN]
FullLoading == [kind |-> "object", show |-> TRUE, hide |-> TRUE]

\* Values that a failing step can reject with or throw.
ServerException(code, msg) ==
  [type |-> "ServerException", response |-> "none", status |-> 0,
   code |-> code, message |-> msg]
ErrorObject(resp, status, code, message) ==
  [type |-> "Error", response |-> resp, status |-> status,
   code |-> code, message |-> message]
Undefined ==
  [type |-> "undefined", response |-> "none", status |-> 0,
   code |-> "none", message |-> "none"]

\* The state of one header provider's promise, with the value it was
\* rejected with.
Token(state, err) == [state |-> state, err |-> err]

\* What the promise of get/post settles with.
NoResult == [kind |-> "none", class |-> "none", code |-> "none", msg |-> "none"]
Payload == [kind |-> "payload", class |-> "none", code |-> "none", msg |-> "none"]
Rejection(ex) ==
  [kind |-> "exception", class |-> ex.class, code |-> ex.code, msg |-> ex.msg]

-----------------------------------------------------------------------------
(* constructor *)

FullPathPort(c) ==
  c.serverBase \o <<":", c.serverPort, "/">>

FullPath(c) ==
  IF c.serverPort # "none" THEN FullPathPort(c) ELSE c.serverBase

-----------------------------------------------------------------------------
(* showError, showLoading, hideLoading: the events each one produces *)

showErrorLax(msg, callback) ==
  IF callback = "function" THEN <<[by |-> "call", msg |-> msg]>>
  ELSE IF config.showError THEN <<[by |-> "global", msg |-> msg]>>
  ELSE <<>>

showError(msg, callback) ==
  IF callback = "function" THEN <<[by |-> "call", msg |-> msg]>>
  ELSE IF callback = "undefined" /\ config.showError
       THEN <<[by |-> "global", msg |-> msg]>>
  ELSE <<>>

showLoading(loading) ==
  IF loading.kind = "object" /\ loading.show
    THEN <<[op |-> "show", on |-> "call"]>>
  ELSE IF /\ (loading.kind = "undefined"
               \/ (loading.kind = "object" /\ ~loading.show))
          /\ config.loading.kind = "object" /\ config.loading.show
    THEN <<[op |-> "show", on |-> "global"]>>
  ELSE <<>>

hideLoadingCallOnly(loading) ==
  IF loading.kind = "object" /\ loading.hide
    THEN <<[op |-> "hide", on |-> "call"]>>
  ELSE <<>>

hideLoading(loading) ==
  IF loading.kind = "object" /\ loading.hide
    THEN <<[op |-> "hide", on |-> "call"]>>
  ELSE IF /\ (loading.kind = "undefined"
               \/ (loading.kind = "object" /\ ~loading.show))
          /\ config.loading.kind = "object" /\ config.loading.hide
    THEN <<[op |-> "hide", on |-> "global"]>>
  ELSE <<>>

-----------------------------------------------------------------------------
(* handleError *)

\* parseInt(status / 100 + '', 10) for a non-negative integer status.
StatusFamily(status) == status \div 100

ClassifyMarkersFirst(err) ==
  IF err.code = "ECONNABORTED"
    THEN [code |-> err.code, msg |-> "MSG_TIMEOUT"]
  ELSE IF err.message = "Network Error"
    THEN [code |-> "NETWORK_ERROR", msg |-> "MSG_NONET"]
  ELSE IF err.response = "status" /\ StatusFamily(err.status) = 5
    THEN [code |-> "SERVER_INTERNAL_ERROR", msg |-> "MSG_SERVER"]
  ELSE IF err.response = "status" /\ StatusFamily(err.status) = 4
    THEN [code |-> "URL_NOT_FOUND", msg |-> "MSG_NOTFOUND"]
  ELSE [code |-> "UNKNOWN_ERROR", msg |-> "MSG_UNKNOWN"]

\* The code and message handleError resolves for a value that is not a
\* ServerException (lines 55-78).
Classify(err) ==
  IF err.response = "status"
    THEN CASE StatusFamily(err.status) = 5 ->
                [code |-> "SERVER_INTERNAL_ERROR", msg |-> "MSG_SERVER"]
           [] StatusFamily(err.status) = 4 ->
                [code |-> "URL_NOT_FOUND", msg |-> "MSG_NOTFOUND"]
           [] OTHER -> [code |-> "UNKNOWN_ERROR", msg |-> "MSG_UNKNOWN"]
  ELSE IF err.code = "ECONNABORTED"
    THEN [code |-> err.code, msg |-> "MSG_TIMEOUT"]
  ELSE IF err.message = "Network Error"
    THEN [code |-> "NETWORK_ERROR", msg |-> "MSG_NONET"]
  ELSE [code |-> "UNKNOWN_ERROR", msg |-> "MSG_UNKNOWN"]

ServerErrorHandlerAlways(err, skipServerErrorHandler) ==
  IF config.handleServerError THEN <<err.code>> ELSE <<>>

\* !skipServerErrorHandler && this.config.handleServerError && ...(err)
ServerErrorHandler(err, skipServerErrorHandler) ==
  IF ~skipServerErrorHandler /\ config.handleServerError
    THEN <<err.code>> ELSE <<>>

\* handleError always throws; the result is what it throws and the
\* callbacks it invoked before. Reading err.response of undefined or null
\* throws a TypeError before anything is displayed.
handleError(err, showErr, skipServerErrorHandler) ==
  IF err.type = "ServerException"
    THEN [thrown |-> [class |-> "ServerException", code |-> err.code,
                      msg |-> err.message],
          shown |-> showError(err.message, showErr),
          handled |-> ServerErrorHandler(err, skipServerErrorHandler)]
  ELSE IF err.type = "undefined"
    THEN [thrown |-> [class |-> "TypeError", code |-> "none", msg |-> "none"],
          shown |-> <<>>, handled |-> <<>>]
  ELSE [thrown |-> [class |-> "ServerException", code |-> Classify(err).code,
                    msg |-> Classify(err).msg],
        shown |-> showError(Classify(err).msg, showErr),
        handled |-> <<>>]

-----------------------------------------------------------------------------
(* httpBase *)

EndsWithSlash(url) == Len(url) > 0 /\ url[Len(url)] = "/"

\* `${this.serverFullPath}${url}${url.endsWith('/') ? '' : '/'}`
RequestUrl(url) ==
  serverFullPath \o url \o (IF EndsWithSlash(url) THEN <<>> ELSE <<"/">>)

\* options.timeout || this.config.timeout || 5000 (0 stands for undefined)
Timeout(options) ==
  IF options.timeout # 0 THEN options.timeout
  ELSE IF config.timeout # 0 THEN config.timeout
  ELSE DefaultTimeout

ApplicableAlways(token, method) == TRUE

\* (token.postOnly && method === 'post') || !token.postOnly
Applicable(token, method) ==
  (token.postOnly /\ method = "post") \/ ~token.postOnly

\* httpOptions.headers[key] = value
SetHeader(headers, key, value) ==
  {h \in headers : h[1] # key} \cup {<<key, value>>}

\* options.skipServerErrorHandler || false
Skip(options) == options.skipServerErrorHandler = "true"

\* The synchronous part of the header map (lines 123-135): in the order of
\* config.headers, a static value is written at once, a function is called:
\* it returns a string, returns a promise (left pending) or throws.
RECURSIVE MapHeaders(_, _, _, _, _)
MapHeaders(i, method, options, calls, acc) ==
  IF i > Len(config.headers) THEN acc
  ELSE
    LET token == config.headers[i]
        next ==
          IF ~Applicable(token, method) THEN acc
          ELSE IF token.get = "value"
            THEN [acc EXCEPT
                    !.headers = SetHeader(@, token.key, StaticValues[i]),
                    !.tokens[i] = Token("resolved", Undefined)]
          ELSE IF calls[i].ret = "string"
            THEN [acc EXCEPT
                    !.headers = SetHeader(@, token.key, TokenValues[i]),
                    !.tokens[i] = Token("resolved", Undefined)]
          ELSE IF calls[i].ret = "promise"
            THEN [acc EXCEPT !.tokens[i] = Token("pending", Undefined)]
          ELSE
            LET h == handleError(calls[i].err, options.showError, Skip(options))
            IN [acc EXCEPT !.tokens[i] = Token("failed", calls[i].err),
                           !.shown = @ \o h.shown,
                           !.handled = @ \o h.handled,
                           !.thrown = @ \o <<h.thrown>>]
    IN MapHeaders(i + 1, method, options, calls, next)

\* What calling a header provider's function does at once.
GetErrors ==
  { ErrorObject("none", 0, "none", "storage unavailable"),
    ErrorObject("status", 401, "none", "Request failed"),
    ServerException("TOKEN_EXPIRED", "MSG_TOKEN_EXPIRED"),
    Undefined }

GetCalls ==
  [ret : {"string", "promise"}, err : {Undefined}]
    \cup [ret : {"throw"}, err : GetErrors]

\* Promise.all fulfils when every header promise is fulfilled.
AllFulfilledLax(t) == \A i \in DOMAIN t : t[i].state # "failed"

AllFulfilled(t) == \A i \in DOMAIN t : t[i].state \in {"skipped", "resolved"}

\* httpBase up to its first suspension at await Promise.all (lines 105-136).
httpBase(method, url, data, options, calls) ==
  /\ pc = "idle"
  /\ LET opts == [options EXCEPT !.skipServerErrorHandler =
                    IF Skip(options) THEN "true" ELSE "false"]
         acc == MapHeaders(1, method, opts, calls,
                  [headers |-> {<<"Content-Type", "application/json">>},
                   tokens |-> [i \in 1..Len(config.headers) |->
                                Token("skipped", Undefined)],
                   shown |-> <<>>, handled |-> <<>>, thrown |-> <<>>])
     IN /\ args' = [args EXCEPT !.options = opts]
        /\ httpOptions' = [method |-> method,
                           url |-> RequestUrl(url),
                           timeout |-> Timeout(opts),
                           withCredentials |-> TRUE,
                           headers |-> acc.headers,
                           data |-> IF method = "post" THEN data ELSE "none"]
        /\ tokens' = acc.tokens
        /\ shown' = shown \o acc.shown
        /\ handled' = handled \o acc.handled
        /\ IF acc.thrown # <<>>
             THEN result' = Rejection(acc.thrown[1]) /\ pc' = "done"
             ELSE result' = result /\ pc' = "headers"
  /\ UNCHANGED <<config, serverFullPath, sent, response, loadingLog>>

get ==
  /\ args.method = "get"
  /\ \E calls \in [1..Len(config.headers) -> GetCalls] :
       httpBase("get", args.url, "none", args.options, calls)

post ==
  /\ args.method = "post"
  /\ \E calls \in [1..Len(config.headers) -> GetCalls] :
       httpBase("post", args.url, args.data, args.options, calls)

\* A pending header promise is fulfilled: getToken resolves and the map
\* callback writes the header (lines 126-130).
TokenResolved(i) ==
  /\ tokens[i].state = "pending"
  /\ tokens' = [tokens EXCEPT ![i] = Token("resolved", Undefined)]
  /\ httpOptions' = [httpOptions EXCEPT
       !.headers = SetHeader(@, config.headers[i].key, TokenValues[i])]
  /\ UNCHANGED <<config, serverFullPath, args, pc, sent, response, result,
                 shown, handled, loadingLog>>

\* A pending header promise is rejected: the map callback runs handleError,
\* whose exception rejects the callback's promise; Promise.all, and with it
\* the call, is rejected by the first such rejection (lines 131-133).
TokenRejected(i, err) ==
  /\ tokens[i].state = "pending"
  /\ LET h == handleError(err, args.options.showError, Skip(args.options))
     IN /\ shown' = shown \o h.shown
        /\ handled' = handled \o h.handled
        /\ IF pc = "headers"
             THEN result' = Rejection(h.thrown) /\ pc' = "done"
             ELSE UNCHANGED <<result, pc>>
  /\ tokens' = [tokens EXCEPT ![i] = Token("failed", err)]
  /\ UNCHANGED <<config, serverFullPath, args, httpOptions, sent, response,
                 loadingLog>>

getTokenResolved == \E i \in DOMAIN tokens : TokenResolved(i)

getTokenRejected == \E i \in DOMAIN tokens, err \in GetErrors : TokenRejected(i, err)

\* Promise.all is fulfilled: showLoading, then Axios.request (lines 138-140).
AxiosRequest ==
  /\ pc = "headers"
  /\ AllFulfilled(tokens)
  /\ loadingLog' = loadingLog \o showLoading(args.options.loading)
  /\ sent' = sent \o <<httpOptions>>
  /\ pc' = "request"
  /\ UNCHANGED <<config, serverFullPath, args, httpOptions, tokens, response,
                 result, shown, handled>>

\* What Axios.request can settle with: a response envelope, or an error.
NoResponse ==
  [kind |-> "none", code |-> "none", msg |-> "none", err |-> Undefined]

Envelopes ==
  { [kind |-> "envelope", code |-> "OK", msg |-> "ok", err |-> Undefined],
    [kind |-> "envelope", code |-> "E_BUSINESS", msg |-> "MSG_BUSINESS",
     err |-> Undefined] }

TransportErrors ==
  { ErrorObject("status", 503, "none", "Request failed"),
    ErrorObject("status", 404, "none", "Request failed"),
    ErrorObject("status", 302, "none", "Request failed"),
    ErrorObject("status", 400, "none", "Request failed"),
    ErrorObject("status", 599, "none", "Request failed"),
    ErrorObject("status", 600, "none", "Request failed"),
    ErrorObject("status", 503, "ECONNABORTED", "Network Error"),
    ErrorObject("nostatus", 0, "ECONNABORTED", "timeout exceeded"),
    ErrorObject("none", 0, "ECONNABORTED", "timeout exceeded"),
    ErrorObject("none", 0, "none", "Network Error"),
    ErrorObject("none", 0, "none", "socket hang up") }

Responses ==
  Envelopes \cup
  { [kind |-> "error", code |-> "none", msg |-> "none", err |-> e] :
      e \in TransportErrors }

\* Axios.request settles: lines 141-151, the finally block included.
AxiosSettled(res) ==
  /\ pc = "request"
  /\ response' = res
  /\ IF res.kind = "envelope" /\ res.code = "OK"
       THEN /\ result' = Payload
            /\ UNCHANGED <<shown, handled>>
       ELSE LET err == IF res.kind = "envelope"
                         THEN ServerException(res.code, res.msg)
                         ELSE res.err
                h == handleError(err, args.options.showError, Skip(args.options))
            IN /\ result' = Rejection(h.thrown)
               /\ shown' = shown \o h.shown
               /\ handled' = handled \o h.handled
  /\ loadingLog' = loadingLog \o hideLoading(args.options.loading)
  /\ pc' = "done"
  /\ UNCHANGED <<config, serverFullPath, args, httpOptions, tokens, sent>>

AxiosResponse == \E res \in Responses : AxiosSettled(res)

Next == get \/ post \/ getTokenResolved \/ getTokenRejected
          \/ AxiosRequest \/ AxiosResponse

-----------------------------------------------------------------------------
(* Configurations and calls *)

HeaderLists(postOnlys, gets) ==
  UNION { { [i \in 1..n |-> [key |-> HeaderKeys[i], postOnly |-> f[i].postOnly,
                             get |-> f[i].get]] :
              f \in [1..n -> [postOnly : postOnlys, get : gets]] } :
          n \in 0..MaxHeaders }

InitOver(Configs, Args) ==
  /\ config \in Configs
  /\ serverFullPath = FullPath(config)
  /\ args \in Args
  /\ pc = "idle"
  /\ httpOptions = [method |-> "none", url |-> <<>>, timeout |-> 0,
                    withCredentials |-> TRUE, headers |-> {}, data |-> "none"]
  /\ tokens = <<>>
  /\ sent = <<>>
  /\ response = NoResponse
  /\ result = NoResult
  /\ shown = <<>>
  /\ handled = <<>>
  /\ loadingLog = <<>>

Base == <<"http://api.test">>

\* Error handling: every error callback setting, plain request.
ErrorConfigs ==
  [serverBase : {Base}, serverPort : {"none"}, timeout : {0},
   showError : BOOLEAN, loading : {FullLoading},
   handleServerError : BOOLEAN,
   headers : HeaderLists({FALSE}, {"value", "function"})]

ErrorArgs ==
  [method : {"get", "post"}, url : {<<"/", "users">>}, data : {"body"},
   options : [timeout : {0}, showError : {"undefined", "null", "function"},
              loading : {NoLoading},
              skipServerErrorHandler : {"undefined", "true"}]]

Init == InitOver(ErrorConfigs, ErrorArgs)

Spec == Init /\ [][Next]_vars


\* Loading indicators: every shape of the per-call and global indicator.
LoadingConfigs ==
  [serverBase : {Base}, serverPort : {"none"}, timeout : {0},
   showError : {TRUE}, loading : {NoLoading} \cup LoadingObjects,
   handleServerError : {FALSE},
   headers : HeaderLists({FALSE}, {"function"})]

LoadingArgs ==
  [method : {"get", "post"}, url : {<<"/", "users">>}, data : {"body"},
   options : [timeout : {0}, showError : {"undefined"},
              loading : {NoLoading, NullLoading} \cup LoadingObjects,
              skipServerErrorHandler : {"undefined"}]]

InitLoading == InitOver(LoadingConfigs, LoadingArgs)

SpecLoading == InitLoading /\ [][Next]_vars

\* Request construction: ports, paths, timeouts, header providers.
RequestConfigs ==
  [serverBase : {Base}, serverPort : {"none", "8080"}, timeout : {0, 3000},
   showError : {TRUE}, loading : {FullLoading},
   handleServerError : {FALSE},
   headers : HeaderLists(BOOLEAN, {"value", "function"})]

Paths ==
  { <<"/", "users">>, <<"users">>, <<"users", "/">>, <<"/", "users", "/">> }

RequestArgs ==
  [method : {"get", "post"}, url : Paths, data : {"body"},
   options : [timeout : {0}, showError : {"undefined"},
              loading : {NoLoading},
              skipServerErrorHandler : {"undefined"}]]

InitRequest == InitOver(RequestConfigs, RequestArgs)

SpecRequest == InitRequest /\ [][Next]_vars

-----------------------------------------------------------------------------
(* Properties *)

Failed == {i \in DOMAIN tokens : tokens[i].state = "failed"}
Pending == {i \in DOMAIN tokens : tokens[i].state = "pending"}
Shows == {k \in DOMAIN loadingLog : loadingLog[k].op = "show"}
Hides == {k \in DOMAIN loadingLog : loadingLog[k].op = "hide"}

LogicalFailure == response.kind = "envelope" /\ response.code # "OK"
TransportFailure == response.kind = "error"

\* The errors handleError has been called with so far.
RequestErrors ==
  IF LogicalFailure THEN {ServerException(response.code, response.msg)}
  ELSE IF TransportFailure THEN {response.err}
  ELSE {}
TokenErrors == {tokens[i].err : i \in Failed}

\* C1 as claimed: for every call that invokes a loading indicator's show, a
\* hide is invoked exactly once, on resolution and on rejection alike; a
\* call that invokes no show invokes no hide; either indicator may lack show
\* or hide.
C1_ShowHidePaired ==
  pc = "done" =>
    /\ (Shows # {} => Cardinality(Hides) = 1)
    /\ (Shows = {} => Hides = {})

Indicator(on) == IF on = "call" THEN args.options.loading ELSE config.loading

\* C1 as amended: a call invokes show at most once and hide at most once,
\* the hide only when the call is over; a call that invokes the show of an
\* indicator that also has hide invokes a hide exactly once, on resolution
\* and on rejection alike; a call that invokes no show invokes no hide of an
\* indicator that has show.
C1_ShowHidePairedWhenCapable ==
  /\ Cardinality(Shows) <= 1 /\ Cardinality(Hides) <= 1
  /\ pc # "done" => Hides = {}
  /\ \A k \in Shows :
       (pc = "done" /\ Indicator(loadingLog[k].on).hide)
         => Cardinality(Hides) = 1
  /\ \A k \in Hides :
       Shows = {} => ~Indicator(loadingLog[k].on).show

C1_Witness ==
  /\ pc = "done" /\ result.kind = "exception"
  /\ args.options.loading = NoLoading /\ config.loading = FullLoading
  /\ loadingLog = <<[op |-> "show", on |-> "global"],
                    [op |-> "hide", on |-> "global"]>>

\* C2 as claimed: with a global server-error handler configured, the handler
\* is invoked exactly once when the call fails logically and skip is not set,
\* and zero times in every other case, failed header resolutions included.
C2_HandlerOncePerLogicalFailure ==
  (pc = "done" /\ config.handleServerError) =>
    Len(handled) =
      IF LogicalFailure /\ ~Skip(args.options) THEN 1 ELSE 0

\* C2 as amended: with a global server-error handler configured and skip not
\* set, the handler is invoked exactly once for each handled failure whose
\* error is a ServerException (the call's logical failure, or a header
\* resolution rejected with a ServerException); it is invoked zero times for
\* successful calls, with skip set, and for every other failure.
C2_HandlerOncePerServerException ==
  LET serverExceptions ==
        Cardinality({i \in Failed : tokens[i].err.type = "ServerException"})
          + (IF LogicalFailure THEN 1 ELSE 0)
  IN /\ config.handleServerError /\ ~Skip(args.options)
          => Len(handled) = serverExceptions
     /\ ~config.handleServerError \/ Skip(args.options)
          => handled = <<>>
     /\ pc = "done" /\ ~LogicalFailure /\ TokenErrors \subseteq
          {e \in GetErrors : e.type # "ServerException"}
          => handled = <<>>

C2_Witness ==
  /\ pc = "done" /\ config.handleServerError
  /\ LogicalFailure /\ ~Skip(args.options)
  /\ handled = <<"E_BUSINESS">>

\* The code and message the claim gives for a failure.
ClaimedCode(err) ==
  IF err.type = "ServerException"
    THEN [code |-> err.code, msg |-> err.message]
  ELSE IF err.response = "status" /\ err.status \in 500..599
    THEN [code |-> "SERVER_INTERNAL_ERROR", msg |-> "MSG_SERVER"]
  ELSE IF err.response = "status" /\ err.status \in 400..499
    THEN [code |-> "URL_NOT_FOUND", msg |-> "MSG_NOTFOUND"]
  ELSE IF err.response # "status" /\ err.code = "ECONNABORTED"
    THEN [code |-> "ECONNABORTED", msg |-> "MSG_TIMEOUT"]
  ELSE IF err.response # "status" /\ err.message = "Network Error"
    THEN [code |-> "NETWORK_ERROR", msg |-> "MSG_NONET"]
  ELSE [code |-> "UNKNOWN_ERROR", msg |-> "MSG_UNKNOWN"]

C4_OnlyServerException ==
  pc = "done" =>
    /\ result.kind \in {"payload", "exception"}
    /\ (result.kind = "payload" =>
          response.kind = "envelope" /\ response.code = "OK")
    /\ (result.kind = "exception" => result.class = "ServerException")

RECURSIVE StripLeft(_)
StripLeft(u) ==
  IF u # <<>> /\ Head(u) = "/" THEN StripLeft(Tail(u)) ELSE u

RECURSIVE StripRight(_)
StripRight(u) ==
  IF u # <<>> /\ u[Len(u)] = "/" THEN StripRight(SubSeq(u, 1, Len(u) - 1))
  ELSE u

\* C5: the dispatched URL is the base, the optional port, one separator, the
\* path without its leading and trailing separators, and one separator.
C5_UrlAssembly ==
  \A k \in DOMAIN sent :
    sent[k].url =
      config.serverBase
        \o (IF config.serverPort # "none"
              THEN <<":", config.serverPort>> ELSE <<>>)
        \o <<"/">> \o StripRight(StripLeft(args.url)) \o <<"/">>

\* The precedence rule of the claim, for one capability.
ClaimedIndicator(op, has, globalHas) ==
  IF args.options.loading.kind = "object" /\ has
    THEN <<[op |-> op, on |-> "call"]>>
  ELSE IF /\ (args.options.loading.kind = "undefined"
               \/ (args.options.loading.kind = "object" /\ ~has))
          /\ config.loading.kind = "object" /\ globalHas
    THEN <<[op |-> op, on |-> "global"]>>
  ELSE <<>>

\* C6: show and hide each follow the per-call-then-global rule on their own
\* capability.
C6_IndependentPrecedence ==
  LET show == ClaimedIndicator("show", args.options.loading.show,
                               config.loading.show)
      hide == ClaimedIndicator("hide", args.options.loading.hide,
                               config.loading.hide)
  IN /\ pc = "request" => loadingLog = show
     /\ (pc = "done" /\ sent # <<>>) => loadingLog = show \o hide

\* C7: every dispatched request carries exactly Content-Type and the keys of
\* the providers that apply to its method (all of them for post, the ones
\* not marked postOnly for get), each with its resolved value.
C7_Headers ==
  \A k \in DOMAIN sent :
    sent[k].headers =
      {<<"Content-Type", "application/json">>}
        \cup { <<config.headers[i].key,
                 IF config.headers[i].get = "value"
                   THEN StaticValues[i] ELSE TokenValues[i]>> :
               i \in {j \in DOMAIN config.headers :
                        sent[k].method = "post" \/ ~config.headers[j].postOnly} }

C7_Witness ==
  /\ sent # <<>> /\ sent[1].method = "get"
  /\ \E i, j \in DOMAIN config.headers :
       /\ config.headers[i].postOnly /\ ~config.headers[j].postOnly
       /\ config.headers[j].get = "function"
       /\ <<config.headers[j].key, TokenValues[j]>> \in sent[1].headers
       /\ \A h \in sent[1].headers : h[1] # config.headers[i].key

C9_JoinAll ==
  Pending # {} => sent = <<>> /\ result = NoResult

\* C9 as amended: the request is dispatched only when every applicable
\* header resolution has resolved; the call's promise settles as soon as one
\* resolution has failed, also while others are pending, and while
\* resolutions are pending it settles in no other way.
C9_FailFast ==
  /\ sent # <<>> => Pending = {} /\ Failed = {}
  /\ Failed # {} => result.kind = "exception"
  /\ (Pending # {} /\ result # NoResult) => Failed # {}

C9_Witness ==
  Pending # {} /\ Failed # {} /\ result.kind = "exception" /\ sent = <<>>

\* C10: within one call the error-display callback is invoked at most once,
\* and never after the call's promise has settled.
C10_DisplayAtMostOnce ==
  [][/\ Len(shown') <= 1
     /\ result # NoResult => shown' = shown]_vars

====
